---- MODULE Spec2Model ----
(***************************************************************************)
(* Model of the two generic mechanisms of the OrangeHRM Playwright suite:  *)
(*   - the retry helpers TestHelpers.retry (with and without backoff) and  *)
(*     TestHelpers.retryWithErrorHandling;                                 *)
(*   - the pre-authenticated fixtures authenticatedPage and                *)
(*     authenticatedContext with the shared session file                   *)
(*     auth-state/admin-auth.json.                                         *)
(* SpecRetry runs one call of a retry helper; SpecFixture runs the         *)
(* fixtures of the test workers.                                           *)
(***************************************************************************)
EXTENDS Integers, Sequences, FiniteSets, TLC

VARIABLES
    which,      \* the helper called: "retry", "retryOld", "retryEH"
    retries0,   \* the `retries` argument of the call
    delay0,     \* the `delay` argument of the call
    backoff0,   \* the `backoff` argument of the call (1 where there is none)
    handler,    \* TRUE when an errorHandler was passed (retryEH only)
    retries,    \* `retries` of the current (recursive) frame
    delay,      \* `delay` of the current frame
    attempt,    \* loop variable of retryWithErrorHandling
    lastError,  \* local of retryWithErrorHandling
    rpc,        \* position of the helper: entry, calling, settled, waiting, done
    settled,    \* how the awaited fn() promise settled
    result,     \* what the caller of the helper observes
    log,        \* history: calls, settlements, waits, handler calls
    file,       \* content of auth-state/admin-auth.json
    fx,         \* per worker: the fixture it runs
    fpc,        \* per worker: position in the fixture
    ctx,        \* per worker: the browser context it created
    logins,     \* per worker: interactive logins started
    loginSteps, \* per worker: interactive login steps performed
    writes,     \* per worker: completed writes of the session file
    probe,      \* per worker: outcome of the validity probe
    handed,     \* per worker: what was handed to the test body
    writers,    \* history: the workers that have completed a write of the file
    lastWrite,  \* history: the worker whose write completed last (0: none)
    envName,    \* process.env.ENV
    envTimeout, \* process.env.TIMEOUT
    config,     \* Environment.config, the cached configuration
    returns,    \* history: what each Environment.getConfig call returned
    loadLog,    \* history: the ENV name seen by each loadConfig call
    uname,      \* value of input[name="username"]
    pword,      \* value of input[name="password"]
    url,        \* the page's URL
    errVisible, \* whether the error element is visible
    errText,    \* text content of the error element
    formShown,  \* whether the login form's elements are visible
    table,      \* the credentials table given to fillCredentialsFromTable
    tidx,       \* position of the loop over the table
    tpc,        \* position inside fillCredentialsFromTable
    tthrown,    \* the field named by the error fillCredentialsFromTable threw
    calls,      \* history: the page-object calls the test has completed
    cur,        \* the page-object call in progress and its position
    plog,       \* history: the page actions performed
    snap,       \* history: the last completed call and the form it left
    scenario,   \* the empty-field scenario under test
    verdict,    \* position and outcome of the scenario's test
    spc,        \* position of globalSetup / createAuthState
    sstep,      \* the step inside a multi-step phase of the setup
    preauth,    \* process.env.PREAUTH
    dirs,       \* whether the auth-state directory exists
    cbrowser,   \* the browser of the accessibility check
    abrowser,   \* the browser of createAuthState
    amarker,    \* whether createAuthState's page has shown the marker
    ares,       \* how createAuthState ended
    swrites,    \* history: writes of the session file by createAuthState
    file0,      \* history: the session file when the setup started
    tdpc,       \* position of globalTeardown
    adirExists, \* whether the auth-state directory exists
    adir,       \* the files of the auth-state directory: name -> contents
    adir0,      \* history: adir when the teardown started
    pending,    \* tempFiles not yet handled by the forEach
    tdlog,      \* history: the teardown steps run and how each ended
    cleanupOld, \* process.env.CLEANUP_OLD_ARTIFACTS
    archive     \* process.env.ARCHIVE_RESULTS

retryVars == <<which, retries0, delay0, backoff0, handler, retries, delay,
               attempt, lastError, rpc, settled, result, log>>
fixtureVars == <<file, fx, fpc, ctx, logins, loginSteps, writes, probe, handed>>
raceVars == <<writers, lastWrite>>
envVars == <<envName, envTimeout, config, returns, loadLog>>
pageVars == <<uname, pword, url, errVisible, errText, formShown>>
tableVars == <<table, tidx, tpc, tthrown>>
opsVars == <<calls, cur, plog, snap>>
scenVars == <<scenario, verdict>>
setupVars == <<spc, sstep, preauth, dirs, cbrowser, abrowser, amarker, ares,
              swrites, file0>>
tdVars == <<tdpc, adirExists, adir, adir0, pending, tdlog, cleanupOld, archive>>
vars == <<retryVars, fixtureVars, raceVars, envVars, pageVars, tableVars,
          opsVars, scenVars, setupVars, tdVars>>

---------------------------------------------------------------------------
(* Bounds and program constants *)

MaxRetries == 3
NegRetries == 1
NumWorkers == 2
MaxGetCalls == 3
MaxEntries == 3
MaxCalls == 3

DefaultDelay == 1000
DefaultBackoff == 2

RetryCounts == (0 - NegRetries)..MaxRetries
Delays == {0, 100, DefaultDelay}
Backoffs == {1, DefaultBackoff, 3}
ErrKinds == {"timeout", "assertion"}
Workers == 1..NumWorkers

---------------------------------------------------------------------------
(* Values *)

Undefined == [t |-> "undefined", k |-> "-", n |-> 0]
NoOutcome == [t |-> "none", k |-> "-", n |-> 0]
\* the value produced by the n-th invocation of the operation
ValueOf(n) == [t |-> "value", k |-> "-", n |-> n]
\* the error thrown by the n-th invocation of the operation
ErrorOf(k, n) == [t |-> "error", k |-> k, n |-> n]
\* the error thrown by the errorHandler on its n-th call
HandlerError(n) == [t |-> "error", k |-> "handler", n |-> n]

\* a browser context: sess is the session its cookies carry ("none", "valid",
\* "stale", "fresh"), origin how it was created ("file": from the stored state,
\* "blank"), marker whether its page has seen the authenticated marker
NoContext == [open |-> FALSE, origin |-> "none", sess |-> "none", marker |-> FALSE]
\* what use() handed to the test body, and how the body ended
NotHanded == [given |-> FALSE, origin |-> "none", sess |-> "none",
              marker |-> FALSE, body |-> "none"]
\* the contents auth-state/admin-auth.json may have when the workers start
StoredStates == {"absent", "valid", "stale", "corrupt"}
Fixtures == {"page", "context"}

NoResult == [t |-> "none", v |-> NoOutcome]
Returned(v) == [t |-> "returned", v |-> v]
Thrown(e) == [t |-> "thrown", v |-> e]

\* a history event: n is the invocation (or attempt) number, d a duration
\* (for a handler call: the invocation whose error it was given), k a kind
Ev(e, n, d, k) == [ev |-> e, n |-> n, d |-> d, k |-> k]

RECURSIVE Pow(_, _)
Pow(b, e) == IF e <= 0 THEN 1 ELSE b * Pow(b, e - 1)

Count(e) == Len(SelectSeq(log, LAMBDA x : x.ev = e))
Calls == Count("call")
WaitEvents == SelectSeq(log, LAMBDA x : x.ev = "wait")
Waits == [i \in 1..Len(WaitEvents) |-> WaitEvents[i].d]
Settlements == SelectSeq(log, LAMBDA x : x.ev \in {"ok", "err"})
HandlerCalls == SelectSeq(log, LAMBDA x : x.ev = "handler")
InFlight == Calls - Len(Settlements)

---------------------------------------------------------------------------
(* Parts of the suite that are not running *)

\* process.env.X is not set
Unset == "<unset>"
\* Environment.config before the first getConfig (undefined)
NoConfig == [kind |-> "undefined", name |-> "-", timeout |-> 0, id |-> 0]
\* URLs of the application: its login page, its dashboard, any other page
LoginUrl == "/web/index.php/auth/login"
DashboardUrl == "/web/index.php/dashboard/index"
OtherUrl == "/web/index.php/pim/viewEmployeeList"
BlankUrl == "about:blank"
\* no page-object call in progress
NoCall == [op |-> "none", step |-> 0, u |-> "", p |-> ""]
\* the form as <<uname, pword, url, errVisible, errText, formShown>>
FreshForm == <<"", "", LoginUrl, FALSE, "", TRUE>>
NoSnap == [op |-> "none", page |-> FreshForm, prevOp |-> "none",
           prevPage |-> FreshForm]

IdleEnv ==
    /\ envName = Unset
    /\ envTimeout = Unset
    /\ config = NoConfig
    /\ returns = <<>>
    /\ loadLog = <<>>

IdlePage ==
    /\ uname = ""
    /\ pword = ""
    /\ url = LoginUrl
    /\ errVisible = FALSE
    /\ errText = ""
    /\ formShown = TRUE

IdleTable ==
    /\ table = <<>>
    /\ tidx = 0
    /\ tpc = "idle"
    /\ tthrown = ""

IdleOps ==
    /\ calls = <<>>
    /\ cur = NoCall
    /\ plog = <<>>
    /\ snap = NoSnap

IdleScenario ==
    /\ scenario = "none"
    /\ verdict = "idle"

IdleSetup ==
    /\ spc = "idle"
    /\ sstep = 0
    /\ preauth = Unset
    /\ dirs = TRUE
    /\ cbrowser = "none"
    /\ abrowser = "none"
    /\ amarker = FALSE
    /\ ares = "none"
    /\ swrites = 0
    /\ file0 = [c |-> "absent", by |-> 0]

IdleTeardown ==
    /\ tdpc = "idle"
    /\ adirExists = FALSE
    /\ adir = <<>>
    /\ adir0 = <<>>
    /\ pending = {}
    /\ tdlog = <<>>
    /\ cleanupOld = Unset
    /\ archive = Unset

---------------------------------------------------------------------------
(* The wrapped operation fn and the timer of TestHelpers.wait *)

\* fn() is called: the invocation is in flight until its promise settles
Invoke(l) ==
    /\ log' = Append(l, Ev("call", Calls + 1, 0, "-"))
    /\ settled' = NoOutcome
    /\ rpc' = "calling"

\* the promise of the invocation in flight resolves or rejects
FnSettles ==
    /\ rpc = "calling"
    /\ \E o \in {ValueOf(Calls)} \cup {ErrorOf(k, Calls) : k \in ErrKinds} :
          /\ settled' = o
          /\ log' = Append(log, Ev(IF o.t = "value" THEN "ok" ELSE "err",
                                   Calls, 0, o.k))
    /\ rpc' = "settled"
    /\ UNCHANGED <<which, retries0, delay0, backoff0, handler, retries, delay,
                   attempt, lastError, result>>

\* this.wait(ms): setTimeout(resolve, ms) is armed
StartWait(l, ms) ==
    /\ log' = Append(l, Ev("wait", 0, ms, "-"))
    /\ rpc' = "waiting"

Finish(r) ==
    /\ result' = r
    /\ rpc' = "done"

---------------------------------------------------------------------------
(* TestHelpers.retry with exponential backoff *)

\* mutants of the exhaustion test: one retry too few, one too many
ExhaustedOffByOne(r) == r <= 1
ExhaustedStrict(r) == r < 0

\* if (retries <= 0) throw error
Exhausted(r) == r <= 0

\* mutant: the recursive call is handed the delay unchanged
NextDelayNoBackoff(d, b) == d

\* the delay handed to the recursive call: delay * backoff
NextDelay(d, b) == d * b

\* retry(fn, retries, delay, backoff) is entered: try { return await fn() }
Retry_Entry ==
    /\ rpc = "entry" /\ which = "retry"
    /\ Invoke(log)
    /\ UNCHANGED <<which, retries0, delay0, backoff0, handler, retries, delay,
                   attempt, lastError, result>>

\* mutant: `await fn()` without `return`, the value is dropped
Retry_Settled_NoReturn ==
    /\ rpc = "settled" /\ which = "retry"
    /\ IF settled.t = "value"
         THEN Finish(Returned(Undefined)) /\ UNCHANGED log
         ELSE IF Exhausted(retries)
                THEN Finish(Thrown(settled)) /\ UNCHANGED log
                ELSE StartWait(log, delay) /\ UNCHANGED result
    /\ UNCHANGED <<which, retries0, delay0, backoff0, handler, retries, delay,
                   attempt, lastError, settled>>

\* mutant: the first caught error is kept and thrown at exhaustion
Retry_Settled_FirstError ==
    /\ rpc = "settled" /\ which = "retry"
    /\ IF settled.t = "value"
         THEN Finish(Returned(settled)) /\ UNCHANGED <<log, lastError>>
         ELSE /\ lastError' = IF lastError = Undefined THEN settled ELSE lastError
              /\ IF Exhausted(retries)
                   THEN Finish(Thrown(lastError')) /\ UNCHANGED log
                   ELSE StartWait(log, delay) /\ UNCHANGED result
    /\ UNCHANGED <<which, retries0, delay0, backoff0, handler, retries, delay,
                   attempt, settled>>

\* mutant: assertion errors are classified as not retryable
Retry_Settled_Classifying ==
    /\ rpc = "settled" /\ which = "retry"
    /\ IF settled.t = "value"
         THEN Finish(Returned(settled)) /\ UNCHANGED log
         ELSE IF Exhausted(retries) \/ settled.k = "assertion"
                THEN Finish(Thrown(settled)) /\ UNCHANGED log
                ELSE StartWait(log, delay) /\ UNCHANGED result
    /\ UNCHANGED <<which, retries0, delay0, backoff0, handler, retries, delay,
                   attempt, lastError, settled>>

\* mutant: this.wait(delay) is not awaited, the recursive call starts at once
Retry_Settled_NoAwait ==
    /\ rpc = "settled" /\ which = "retry"
    /\ IF settled.t = "value"
         THEN Finish(Returned(settled)) /\ UNCHANGED <<log, retries, delay>>
         ELSE IF Exhausted(retries)
                THEN Finish(Thrown(settled)) /\ UNCHANGED <<log, retries, delay>>
                ELSE /\ retries' = retries - 1
                     /\ delay' = NextDelay(delay, backoff0)
                     /\ log' = log \o <<Ev("wait", 0, delay, "-"),
                                         Ev("call", Calls + 1, 0, "-")>>
                     /\ rpc' = "calling"
                     /\ UNCHANGED result
    /\ UNCHANGED <<which, retries0, delay0, backoff0, handler,
                   attempt, lastError, settled>>

\* await fn() settled: return the value, or catch the error
Retry_Settled ==
    /\ rpc = "settled" /\ which = "retry"
    /\ IF settled.t = "value"
         THEN Finish(Returned(settled)) /\ UNCHANGED log
         ELSE IF Exhausted(retries)
                THEN Finish(Thrown(settled)) /\ UNCHANGED log
                ELSE StartWait(log, delay) /\ UNCHANGED result
    /\ UNCHANGED <<which, retries0, delay0, backoff0, handler, retries, delay,
                   attempt, lastError, settled>>

\* await this.wait(delay) is over: return this.retry(fn, retries - 1, delay * backoff, backoff)
Retry_WaitDone ==
    /\ rpc = "waiting" /\ which = "retry"
    /\ retries' = retries - 1
    /\ delay' = NextDelay(delay, backoff0)
    /\ Invoke(Append(log, Ev("elapsed", 0, delay, "-")))
    /\ UNCHANGED <<which, retries0, delay0, backoff0, handler, attempt,
                   lastError, result>>

---------------------------------------------------------------------------
(* TestHelpers.retry of helper.ts: no backoff parameter *)

OldRetry_Entry ==
    /\ rpc = "entry" /\ which = "retryOld"
    /\ Invoke(log)
    /\ UNCHANGED <<which, retries0, delay0, backoff0, handler, retries, delay,
                   attempt, lastError, result>>

OldRetry_Settled ==
    /\ rpc = "settled" /\ which = "retryOld"
    /\ IF settled.t = "value"
         THEN Finish(Returned(settled)) /\ UNCHANGED log
         ELSE IF retries <= 0
                THEN Finish(Thrown(settled)) /\ UNCHANGED log
                ELSE StartWait(log, delay) /\ UNCHANGED result
    /\ UNCHANGED <<which, retries0, delay0, backoff0, handler, retries, delay,
                   attempt, lastError, settled>>

\* return this.retry(fn, retries - 1, delay)
OldRetry_WaitDone ==
    /\ rpc = "waiting" /\ which = "retryOld"
    /\ retries' = retries - 1
    /\ Invoke(Append(log, Ev("elapsed", 0, delay, "-")))
    /\ UNCHANGED <<which, retries0, delay0, backoff0, handler, delay, attempt,
                   lastError, result>>

---------------------------------------------------------------------------
(* TestHelpers.retryWithErrorHandling *)

\* mutant: the loop runs while attempt <= retries, one attempt fewer
RWEH_Loop_Short(l, a, le) ==
    IF a <= retries
      THEN Invoke(l) /\ UNCHANGED result
      ELSE Finish(Thrown(le)) /\ log' = l /\ UNCHANGED settled

\* the loop test, then the loop body's fn() or the throw after the loop
RWEH_Loop(l, a, le) ==
    IF a <= retries + 1
      THEN Invoke(l) /\ UNCHANGED result
      ELSE Finish(Thrown(le)) /\ log' = l /\ UNCHANGED settled

\* let lastError; for (let attempt = 1; ...
RWEH_Entry ==
    /\ rpc = "entry" /\ which = "retryEH"
    /\ attempt' = 1
    /\ lastError' = Undefined
    /\ RWEH_Loop(log, 1, Undefined)
    /\ UNCHANGED <<which, retries0, delay0, backoff0, handler, retries, delay>>

\* mutant: the wait grows with the attempt number
RWEH_AfterHandler_Growing(l, e) ==
    IF attempt <= retries
      THEN /\ StartWait(l, delay * attempt)
           /\ UNCHANGED <<attempt, result, settled>>
      ELSE /\ attempt' = attempt + 1
           /\ RWEH_Loop(l, attempt + 1, e)

\* after the catch block's handler call: wait when attempt <= retries, else attempt++
RWEH_AfterHandler(l, e) ==
    IF attempt <= retries
      THEN /\ StartWait(l, delay)
           /\ UNCHANGED <<attempt, result, settled>>
      ELSE /\ attempt' = attempt + 1
           /\ RWEH_Loop(l, attempt + 1, e)

\* mutant: an error thrown by the errorHandler is swallowed
RWEH_Settled_SwallowsHandler ==
    /\ rpc = "settled" /\ which = "retryEH"
    /\ IF settled.t = "value"
         THEN /\ Finish(Returned(settled))
              /\ UNCHANGED <<log, lastError, attempt, settled>>
         ELSE /\ lastError' = settled
              /\ IF handler
                   THEN \E throws \in BOOLEAN :
                          LET l == Append(log, Ev("handler", attempt, settled.n,
                                                  settled.k))
                          IN IF throws
                               THEN RWEH_AfterHandler(
                                        Append(l, Ev("handlerThrew", attempt, 0,
                                                     "handler")), settled)
                               ELSE RWEH_AfterHandler(l, settled)
                   ELSE RWEH_AfterHandler(log, settled)
    /\ UNCHANGED <<which, retries0, delay0, backoff0, handler, retries, delay>>

\* await fn() settled: return the value, or run the catch block
RWEH_Settled ==
    /\ rpc = "settled" /\ which = "retryEH"
    /\ IF settled.t = "value"
         THEN /\ Finish(Returned(settled))
              /\ UNCHANGED <<log, lastError, attempt, settled>>
         ELSE /\ lastError' = settled
              /\ IF handler
                   THEN \E throws \in BOOLEAN :
                          LET l == Append(log, Ev("handler", attempt, settled.n,
                                                  settled.k))
                          IN IF throws
                               THEN /\ Finish(Thrown(HandlerError(attempt)))
                                    /\ log' = Append(l, Ev("handlerThrew",
                                                           attempt, 0, "handler"))
                                    /\ UNCHANGED <<attempt, settled>>
                               ELSE RWEH_AfterHandler(l, settled)
                   ELSE RWEH_AfterHandler(log, settled)
    /\ UNCHANGED <<which, retries0, delay0, backoff0, handler, retries, delay>>

\* await this.wait(delay) is over: attempt++ and the loop test
RWEH_WaitDone ==
    /\ rpc = "waiting" /\ which = "retryEH"
    /\ attempt' = attempt + 1
    /\ RWEH_Loop(Append(log, Ev("elapsed", 0, delay, "-")), attempt + 1, lastError)
    /\ UNCHANGED <<which, retries0, delay0, backoff0, handler, retries, delay,
                   lastError>>

---------------------------------------------------------------------------
(* One call of a retry helper *)

InitRetry ==
    /\ which \in {"retry", "retryOld", "retryEH"}
    /\ retries0 \in RetryCounts
    /\ delay0 \in Delays
    /\ backoff0 \in (IF which = "retry" THEN Backoffs ELSE {1})
    /\ handler \in (IF which = "retryEH" THEN BOOLEAN ELSE {FALSE})
    /\ retries = retries0
    /\ delay = delay0
    /\ attempt = 0
    /\ lastError = Undefined
    /\ rpc = "entry"
    /\ settled = NoOutcome
    /\ result = NoResult
    /\ log = <<>>

IdleFixture ==
    /\ file = [c |-> "absent", by |-> 0]
    /\ fx = [w \in Workers |-> "none"]
    /\ fpc = [w \in Workers |-> "idle"]
    /\ ctx = [w \in Workers |-> NoContext]
    /\ logins = [w \in Workers |-> 0]
    /\ loginSteps = [w \in Workers |-> 0]
    /\ writes = [w \in Workers |-> 0]
    /\ probe = [w \in Workers |-> "none"]
    /\ handed = [w \in Workers |-> NotHanded]

NextRetry ==
    \/ (FnSettles /\ UNCHANGED <<tdVars, setupVars, fixtureVars, raceVars, envVars, pageVars, tableVars, opsVars, scenVars>>)
    \/ (Retry_Entry /\ UNCHANGED <<tdVars, setupVars, fixtureVars, raceVars, envVars, pageVars, tableVars, opsVars, scenVars>>)
    \/ (Retry_Settled /\ UNCHANGED <<tdVars, setupVars, fixtureVars, raceVars, envVars, pageVars, tableVars, opsVars, scenVars>>)
    \/ (Retry_WaitDone /\ UNCHANGED <<tdVars, setupVars, fixtureVars, raceVars, envVars, pageVars, tableVars, opsVars, scenVars>>)
    \/ (OldRetry_Entry /\ UNCHANGED <<tdVars, setupVars, fixtureVars, raceVars, envVars, pageVars, tableVars, opsVars, scenVars>>)
    \/ (OldRetry_Settled /\ UNCHANGED <<tdVars, setupVars, fixtureVars, raceVars, envVars, pageVars, tableVars, opsVars, scenVars>>)
    \/ (OldRetry_WaitDone /\ UNCHANGED <<tdVars, setupVars, fixtureVars, raceVars, envVars, pageVars, tableVars, opsVars, scenVars>>)
    \/ (RWEH_Entry /\ UNCHANGED <<tdVars, setupVars, fixtureVars, raceVars, envVars, pageVars, tableVars, opsVars, scenVars>>)
    \/ (RWEH_Settled /\ UNCHANGED <<tdVars, setupVars, fixtureVars, raceVars, envVars, pageVars, tableVars, opsVars, scenVars>>)
    \/ (RWEH_WaitDone /\ UNCHANGED <<tdVars, setupVars, fixtureVars, raceVars, envVars, pageVars, tableVars, opsVars, scenVars>>)

NoWrites ==
    /\ writers = {}
    /\ lastWrite = 0

InitR ==
    InitRetry /\ IdleFixture /\ NoWrites /\ IdleEnv /\ IdlePage /\ IdleTable
    /\ IdleOps /\ IdleScenario /\ IdleSetup
    /\ IdleTeardown

SpecRetry == InitR /\ [][NextRetry]_vars

---------------------------------------------------------------------------
(* The pre-authenticated fixtures authenticatedPage and authenticatedContext *)

\* the interactive login: goto(baseUrl), fill username, fill password,
\* click submit, waitForSelector(marker)
LoginPcs == <<"loginGoto", "loginFillUser", "loginFillPass", "loginClick",
              "loginWait">>
InLogin(w) == \E i \in 1..Len(LoginPcs) : fpc[w] = LoginPcs[i]
LoginIndex(w) == CHOOSE i \in 1..Len(LoginPcs) : fpc[w] = LoginPcs[i]

\* await use(page) / await use(context)
Hand(w, c) ==
    /\ handed' = [handed EXCEPT ![w] =
                    [given |-> TRUE, origin |-> c.origin, sess |-> c.sess,
                     marker |-> c.marker, body |-> "running"]]
    /\ fpc' = [fpc EXCEPT ![w] = "use"]

\* fs.existsSync(authStatePath), then browser.newContext is called
Fx_Exists(w) ==
    /\ fpc[w] = "start"
    /\ fpc' = [fpc EXCEPT ![w] = IF file.c # "absent" THEN "restore" ELSE "blank"]
    /\ UNCHANGED <<file, fx, ctx, logins, loginSteps, writes, probe, handed>>

\* await browser.newContext({ storageState: authStatePath }); newPage():
\* the file is read and parsed; an unreadable file makes newContext throw
Fx_NewContextStored(w) ==
    /\ fpc[w] = "restore"
    /\ IF file.c \in {"valid", "stale"}
         THEN /\ ctx' = [ctx EXCEPT ![w] = [open |-> TRUE, origin |-> "file",
                                            sess |-> file.c, marker |-> FALSE]]
              /\ fpc' = [fpc EXCEPT ![w] = "probeGoto"]
         ELSE /\ fpc' = [fpc EXCEPT ![w] = "failed"]
              /\ UNCHANGED ctx
    /\ UNCHANGED <<file, fx, logins, loginSteps, writes, probe, handed>>

\* mutant: a failed probe navigation falls back to the login
Fx_ProbeGoto_Fallback(w) ==
    /\ fpc[w] = "probeGoto"
    /\ \E ok \in BOOLEAN :
          fpc' = [fpc EXCEPT ![w] = IF ok THEN "probeWait" ELSE LoginPcs[1]]
    /\ UNCHANGED <<file, fx, ctx, logins, loginSteps, writes, probe, handed>>

\* await page.goto(baseUrl + '/web/index.php/dashboard/index')
Fx_ProbeGoto(w) ==
    /\ fpc[w] = "probeGoto"
    /\ \E ok \in BOOLEAN :
          fpc' = [fpc EXCEPT ![w] = IF ok THEN "probeWait" ELSE "failed"]
    /\ UNCHANGED <<file, fx, ctx, logins, loginSteps, writes, probe, handed>>

\* mutant: the context fixture writes the state back after a passed probe
Fx_ProbeWait_WriteBack(w) ==
    /\ fpc[w] = "probeWait"
    /\ \E seen \in (IF ctx[w].sess = "valid" THEN BOOLEAN ELSE {FALSE}) :
          IF seen
            THEN /\ probe' = [probe EXCEPT ![w] = "passed"]
                 /\ ctx' = [ctx EXCEPT ![w].marker = TRUE]
                 /\ fpc' = [fpc EXCEPT ![w] = "save"]
                 /\ UNCHANGED handed
            ELSE /\ probe' = [probe EXCEPT ![w] = "failed"]
                 /\ fpc' = [fpc EXCEPT ![w] = LoginPcs[1]]
                 /\ UNCHANGED <<ctx, handed>>
    /\ UNCHANGED <<file, fx, logins, loginSteps, writes>>

\* try { await page.waitForSelector(marker, { timeout: 5000 }) } catch { login }
\* the marker appears only in a context whose session is valid
Fx_ProbeWait(w) ==
    /\ fpc[w] = "probeWait"
    /\ \E seen \in (IF ctx[w].sess = "valid" THEN BOOLEAN ELSE {FALSE}) :
          IF seen
            THEN /\ probe' = [probe EXCEPT ![w] = "passed"]
                 /\ ctx' = [ctx EXCEPT ![w].marker = TRUE]
                 /\ Hand(w, ctx'[w])
            ELSE /\ probe' = [probe EXCEPT ![w] = "failed"]
                 /\ fpc' = [fpc EXCEPT ![w] = LoginPcs[1]]
                 /\ UNCHANGED <<ctx, handed>>
    /\ UNCHANGED <<file, fx, logins, loginSteps, writes>>

\* context = await browser.newContext(); page = await context.newPage()
Fx_NewContextBlank(w) ==
    /\ fpc[w] = "blank"
    /\ ctx' = [ctx EXCEPT ![w] = [open |-> TRUE, origin |-> "blank",
                                  sess |-> "none", marker |-> FALSE]]
    /\ fpc' = [fpc EXCEPT ![w] = LoginPcs[1]]
    /\ UNCHANGED <<file, fx, logins, loginSteps, writes, probe, handed>>

\* after the login's marker wait: authenticatedPage hands the page over,
\* authenticatedContext goes on to save the state
AfterLogin(w, c) ==
    IF fx[w] = "page"
      THEN Hand(w, c)
      ELSE fpc' = [fpc EXCEPT ![w] = "save"] /\ UNCHANGED handed

\* mutant: a failed login step starts the login over once
Fx_LoginStep_Retrying(w) ==
    /\ InLogin(w)
    /\ LET i == LoginIndex(w) IN
         /\ loginSteps' = [loginSteps EXCEPT ![w] = @ + 1]
         /\ logins' = [logins EXCEPT ![w] = IF i = 1 THEN @ + 1 ELSE @]
         /\ \E ok \in BOOLEAN :
              IF ~ok
                THEN /\ fpc' = [fpc EXCEPT ![w] =
                                  IF logins'[w] < 2 THEN LoginPcs[1] ELSE "failed"]
                     /\ UNCHANGED <<ctx, handed>>
                ELSE IF i < Len(LoginPcs)
                  THEN /\ fpc' = [fpc EXCEPT ![w] = LoginPcs[i + 1]]
                       /\ UNCHANGED <<ctx, handed>>
                  ELSE /\ ctx' = [ctx EXCEPT ![w].sess = "fresh",
                                             ![w].marker = TRUE]
                       /\ AfterLogin(w, ctx'[w])
    /\ UNCHANGED <<file, fx, writes, probe>>

\* one awaited step of the interactive login; a step that throws ends the
\* fixture with that error
Fx_LoginStep(w) ==
    /\ InLogin(w)
    /\ LET i == LoginIndex(w) IN
         /\ loginSteps' = [loginSteps EXCEPT ![w] = @ + 1]
         /\ logins' = [logins EXCEPT ![w] = IF i = 1 THEN @ + 1 ELSE @]
         /\ \E ok \in BOOLEAN :
              IF ~ok
                THEN /\ fpc' = [fpc EXCEPT ![w] = "failed"]
                     /\ UNCHANGED <<ctx, handed>>
                ELSE IF i < Len(LoginPcs)
                  THEN /\ fpc' = [fpc EXCEPT ![w] = LoginPcs[i + 1]]
                       /\ UNCHANGED <<ctx, handed>>
                  ELSE /\ ctx' = [ctx EXCEPT ![w].sess = "fresh",
                                             ![w].marker = TRUE]
                       /\ AfterLogin(w, ctx'[w])
    /\ UNCHANGED <<file, fx, writes, probe>>

\* mutant: a lock on the session file, no write starts while another is going on
Fx_SaveBegin_Locked(w) ==
    /\ fpc[w] = "save"
    /\ \A v \in Workers : fpc[v] # "saving"
    /\ file' = [c |-> "partial", by |-> w]
    /\ fpc' = [fpc EXCEPT ![w] = "saving"]
    /\ UNCHANGED <<fx, ctx, logins, loginSteps, writes, probe, handed>>

\* await context.storageState({ path: authStatePath }): the write starts
Fx_SaveBegin(w) ==
    /\ fpc[w] = "save"
    /\ file' = [c |-> "partial", by |-> w]
    /\ fpc' = [fpc EXCEPT ![w] = "saving"]
    /\ UNCHANGED <<fx, ctx, logins, loginSteps, writes, probe, handed>>

\* the write completes; await page.close(); await use(context)
Fx_SaveEnd(w) ==
    /\ fpc[w] = "saving"
    /\ file' = [c |-> "valid", by |-> w]
    /\ writes' = [writes EXCEPT ![w] = @ + 1]
    /\ Hand(w, ctx[w])
    /\ UNCHANGED <<fx, ctx, logins, loginSteps, probe>>

\* the test body runs and passes or fails; use() resolves either way
Fx_TestBody(w) ==
    /\ fpc[w] = "use"
    /\ \E ok \in BOOLEAN :
          handed' = [handed EXCEPT ![w].body = IF ok THEN "passed" ELSE "failed"]
    /\ fpc' = [fpc EXCEPT ![w] = "close"]
    /\ UNCHANGED <<file, fx, ctx, logins, loginSteps, writes, probe>>

\* await context.close()
Fx_Close(w) ==
    /\ fpc[w] = "close"
    /\ ctx' = [ctx EXCEPT ![w].open = FALSE]
    /\ fpc' = [fpc EXCEPT ![w] = "done"]
    /\ UNCHANGED <<file, fx, logins, loginSteps, writes, probe, handed>>

IdleRetry ==
    /\ which = "retry"
    /\ retries0 = 0
    /\ delay0 = 0
    /\ backoff0 = 1
    /\ handler = FALSE
    /\ retries = 0
    /\ delay = 0
    /\ attempt = 0
    /\ lastError = Undefined
    /\ rpc = "idle"
    /\ settled = NoOutcome
    /\ result = NoResult
    /\ log = <<>>

\* each worker runs one test that requests one of the two fixtures
InitFixture ==
    /\ file \in {[c |-> s, by |-> 0] : s \in StoredStates}
    /\ fx \in [Workers -> Fixtures]
    /\ fpc = [w \in Workers |-> "start"]
    /\ ctx = [w \in Workers |-> NoContext]
    /\ logins = [w \in Workers |-> 0]
    /\ loginSteps = [w \in Workers |-> 0]
    /\ writes = [w \in Workers |-> 0]
    /\ probe = [w \in Workers |-> "none"]
    /\ handed = [w \in Workers |-> NotHanded]

InitF ==
    InitFixture /\ IdleRetry /\ NoWrites /\ IdleEnv /\ IdlePage /\ IdleTable
    /\ IdleOps /\ IdleScenario /\ IdleSetup
    /\ IdleTeardown

\* history of the completed writes of the session file
RecordWrite(w) ==
    /\ writers' = writers \cup {w}
    /\ lastWrite' = w

NextFixture ==
    \/ \E w \in Workers : Fx_Exists(w) /\ UNCHANGED <<tdVars, setupVars, retryVars, raceVars, envVars, pageVars, tableVars, opsVars, scenVars>>
    \/ \E w \in Workers : Fx_NewContextStored(w) /\ UNCHANGED <<tdVars, setupVars, retryVars, raceVars, envVars, pageVars, tableVars, opsVars, scenVars>>
    \/ \E w \in Workers : Fx_ProbeGoto(w) /\ UNCHANGED <<tdVars, setupVars, retryVars, raceVars, envVars, pageVars, tableVars, opsVars, scenVars>>
    \/ \E w \in Workers : Fx_ProbeWait(w) /\ UNCHANGED <<tdVars, setupVars, retryVars, raceVars, envVars, pageVars, tableVars, opsVars, scenVars>>
    \/ \E w \in Workers : Fx_NewContextBlank(w) /\ UNCHANGED <<tdVars, setupVars, retryVars, raceVars, envVars, pageVars, tableVars, opsVars, scenVars>>
    \/ \E w \in Workers : Fx_LoginStep(w) /\ UNCHANGED <<tdVars, setupVars, retryVars, raceVars, envVars, pageVars, tableVars, opsVars, scenVars>>
    \/ \E w \in Workers : Fx_SaveBegin(w) /\ UNCHANGED <<tdVars, setupVars, retryVars, raceVars, envVars, pageVars, tableVars, opsVars, scenVars>>
    \/ \E w \in Workers : Fx_SaveEnd(w) /\ RecordWrite(w)
                         /\ UNCHANGED <<tdVars, setupVars, retryVars, envVars, pageVars, tableVars, opsVars, scenVars>>
    \/ \E w \in Workers : Fx_TestBody(w) /\ UNCHANGED <<tdVars, setupVars, retryVars, raceVars, envVars, pageVars, tableVars, opsVars, scenVars>>
    \/ \E w \in Workers : Fx_Close(w) /\ UNCHANGED <<tdVars, setupVars, retryVars, raceVars, envVars, pageVars, tableVars, opsVars, scenVars>>

SpecFixture == InitF /\ [][NextFixture]_vars

\* the worker's test is over; its next test requests the fixture again
Fx_NextTest(w) ==
    /\ fpc[w] \in {"done", "failed"}
    /\ fpc' = [fpc EXCEPT ![w] = "start"]
    /\ ctx' = [ctx EXCEPT ![w] = NoContext]
    /\ logins' = [logins EXCEPT ![w] = 0]
    /\ loginSteps' = [loginSteps EXCEPT ![w] = 0]
    /\ writes' = [writes EXCEPT ![w] = 0]
    /\ probe' = [probe EXCEPT ![w] = "none"]
    /\ handed' = [handed EXCEPT ![w] = NotHanded]
    /\ UNCHANGED <<file, fx>>

\* the workers run test after test on the shared session file
NextWorkers ==
    \/ NextFixture
    \/ \E w \in Workers : Fx_NextTest(w) /\ UNCHANGED <<tdVars, setupVars, retryVars, raceVars, envVars, pageVars, tableVars, opsVars, scenVars>>

SpecWorkers == InitF /\ [][NextWorkers]_vars

---------------------------------------------------------------------------
(* globalSetup and createAuthState, then the workers *)

PreauthValues == {Unset, "true", "false"}
\* the awaited steps of the accessibility check after the launch:
\* newContext, newPage, goto, waitForSelector
CheckSteps == 4
\* the awaited steps of createAuthState's login: goto, fill, fill, click
AuthLoginSteps == 4

\* if (process.env.PREAUTH === 'true') { try { await createAuthState() } ... }
\* else globalSetup returns
AfterCheck ==
    spc' = IF preauth = "true" THEN "aLaunch" ELSE "returned"

\* directories.forEach(... fs.mkdirSync(dir, { recursive: true }));
\* an exception of mkdirSync leaves globalSetup
Setup_Dirs ==
    /\ spc = "dirs"
    /\ \E ok \in BOOLEAN :
          IF ok THEN dirs' = TRUE /\ spc' = "checkLaunch"
                ELSE spc' = "threw" /\ UNCHANGED dirs
    /\ UNCHANGED <<sstep, preauth, cbrowser, abrowser, amarker, ares, swrites,
                   file0, file>>

\* try { const browser = await chromium.launch(...) } catch { warn }
Setup_CheckLaunch ==
    /\ spc = "checkLaunch"
    /\ \E ok \in BOOLEAN :
          IF ok THEN /\ cbrowser' = "open"
                     /\ spc' = "check"
                     /\ sstep' = 1
                ELSE AfterCheck /\ UNCHANGED <<cbrowser, sstep>>
    /\ UNCHANGED <<preauth, dirs, abrowser, amarker, ares, swrites, file0, file>>

\* an awaited step of the accessibility check; a failure is caught and warned
Setup_CheckStep ==
    /\ spc = "check"
    /\ \E ok \in BOOLEAN :
          IF ok THEN IF sstep < CheckSteps
                       THEN sstep' = sstep + 1 /\ UNCHANGED spc
                       ELSE spc' = "checkClose" /\ UNCHANGED sstep
                ELSE AfterCheck /\ UNCHANGED sstep
    /\ UNCHANGED <<preauth, dirs, cbrowser, abrowser, amarker, ares, swrites,
                   file0, file>>

\* await browser.close() at the end of the check's try block
Setup_CheckClose ==
    /\ spc = "checkClose"
    /\ cbrowser' = "closed"
    /\ AfterCheck
    /\ UNCHANGED <<sstep, preauth, dirs, abrowser, amarker, ares, swrites,
                   file0, file>>

\* createAuthState: const browser = await chromium.launch(...); its rejection
\* is caught by globalSetup
Auth_Launch ==
    /\ spc = "aLaunch"
    /\ \E ok \in BOOLEAN :
          IF ok THEN abrowser' = "open" /\ spc' = "aContext" /\ UNCHANGED ares
                ELSE ares' = "threw" /\ spc' = "returned" /\ UNCHANGED abrowser
    /\ UNCHANGED <<sstep, preauth, dirs, cbrowser, amarker, swrites, file0, file>>

\* const context = await browser.newContext(), before the try block
Auth_NewContext ==
    /\ spc = "aContext"
    /\ \E ok \in BOOLEAN :
          IF ok THEN spc' = "aPage" /\ UNCHANGED ares
                ELSE ares' = "threw" /\ spc' = "returned"
    /\ UNCHANGED <<sstep, preauth, dirs, cbrowser, abrowser, amarker, swrites,
                   file0, file>>

\* const page = await context.newPage(), before the try block
Auth_NewPage ==
    /\ spc = "aPage"
    /\ \E ok \in BOOLEAN :
          IF ok THEN spc' = "aLogin" /\ sstep' = 1 /\ UNCHANGED ares
                ELSE ares' = "threw" /\ spc' = "returned" /\ UNCHANGED sstep
    /\ UNCHANGED <<preauth, dirs, cbrowser, abrowser, amarker, swrites, file0,
                   file>>

\* try { goto; fill; fill; click: a step that throws goes to the finally block
Auth_LoginStep ==
    /\ spc = "aLogin"
    /\ \E ok \in BOOLEAN :
          IF ok THEN /\ IF sstep < AuthLoginSteps
                          THEN sstep' = sstep + 1 /\ UNCHANGED spc
                          ELSE spc' = "aMarker" /\ UNCHANGED sstep
                     /\ UNCHANGED ares
                ELSE ares' = "pending" /\ spc' = "aClose" /\ UNCHANGED sstep
    /\ UNCHANGED <<preauth, dirs, cbrowser, abrowser, amarker, swrites, file0,
                   file>>

\* mutant: the marker wait is left out
Auth_MarkerWait_Skipped ==
    /\ spc = "aMarker"
    /\ spc' = "aSave"
    /\ UNCHANGED <<sstep, preauth, dirs, cbrowser, abrowser, amarker, ares,
                   swrites, file0, file>>

\* await page.waitForSelector('.oxd-topbar-header-breadcrumb h6', ...)
Auth_MarkerWait ==
    /\ spc = "aMarker"
    /\ \E seen \in BOOLEAN :
          IF seen THEN amarker' = TRUE /\ spc' = "aSave" /\ UNCHANGED ares
                  ELSE ares' = "pending" /\ spc' = "aClose" /\ UNCHANGED amarker
    /\ UNCHANGED <<sstep, preauth, dirs, cbrowser, abrowser, swrites, file0,
                   file>>

\* await context.storageState({ path: 'auth-state/admin-auth.json' }); a write
\* that fails leaves the file as it was or partly written
Auth_StorageState ==
    /\ spc = "aSave"
    /\ swrites' = swrites + 1
    /\ \E ok \in BOOLEAN :
          IF ok THEN file' = [c |-> "valid", by |-> 0] /\ UNCHANGED ares
                ELSE /\ file' \in {file, [c |-> "partial", by |-> 0]}
                     /\ ares' = "pending"
    /\ spc' = "aClose"
    /\ UNCHANGED <<sstep, preauth, dirs, cbrowser, abrowser, amarker, file0>>

\* finally { await browser.close() }, then globalSetup's try or catch
Auth_Close ==
    /\ spc = "aClose"
    /\ abrowser' = "closed"
    /\ ares' = IF ares = "pending" THEN "threw" ELSE "ok"
    /\ spc' = "returned"
    /\ UNCHANGED <<sstep, preauth, dirs, cbrowser, amarker, swrites, file0, file>>

\* globalSetup has returned: the workers start, each running one test that
\* requests one of the two fixtures; the setup's own state is gone
Run_WorkersStart ==
    /\ spc = "returned"
    /\ spc' = "workers"
    /\ sstep' = 0
    /\ preauth' = Unset
    /\ cbrowser' = "none"
    /\ abrowser' = "none"
    /\ amarker' = FALSE
    /\ ares' = "none"
    /\ file0' = file
    /\ fx' \in [Workers -> Fixtures]
    /\ fpc' = [w \in Workers |-> "start"]
    /\ UNCHANGED <<dirs, swrites, file, ctx, logins, loginSteps, writes, probe,
                   handed>>

InitSetup ==
    /\ spc = "dirs"
    /\ sstep = 0
    /\ preauth \in PreauthValues
    /\ dirs \in BOOLEAN
    /\ cbrowser = "none"
    /\ abrowser = "none"
    /\ amarker = FALSE
    /\ ares = "none"
    /\ swrites = 0
    /\ file \in {[c |-> s, by |-> 0] : s \in StoredStates}
    /\ file0 = file
    /\ (dirs = FALSE => file.c = "absent")
    /\ fx = [w \in Workers |-> "none"]
    /\ fpc = [w \in Workers |-> "idle"]
    /\ ctx = [w \in Workers |-> NoContext]
    /\ logins = [w \in Workers |-> 0]
    /\ loginSteps = [w \in Workers |-> 0]
    /\ writes = [w \in Workers |-> 0]
    /\ probe = [w \in Workers |-> "none"]
    /\ handed = [w \in Workers |-> NotHanded]

InitRun ==
    InitSetup /\ IdleRetry /\ NoWrites /\ IdleEnv /\ IdlePage /\ IdleTable
    /\ IdleOps /\ IdleScenario
    /\ IdleTeardown

NextRun ==
    \/ Setup_Dirs /\ UNCHANGED <<tdVars, retryVars, raceVars, envVars, pageVars,
           tableVars, opsVars, scenVars, fx, fpc, ctx, logins, loginSteps,
           writes, probe, handed>>
    \/ Setup_CheckLaunch /\ UNCHANGED <<tdVars, retryVars, raceVars, envVars, pageVars,
           tableVars, opsVars, scenVars, fx, fpc, ctx, logins, loginSteps,
           writes, probe, handed>>
    \/ Setup_CheckStep /\ UNCHANGED <<tdVars, retryVars, raceVars, envVars, pageVars,
           tableVars, opsVars, scenVars, fx, fpc, ctx, logins, loginSteps,
           writes, probe, handed>>
    \/ Setup_CheckClose /\ UNCHANGED <<tdVars, retryVars, raceVars, envVars, pageVars,
           tableVars, opsVars, scenVars, fx, fpc, ctx, logins, loginSteps,
           writes, probe, handed>>
    \/ Auth_Launch /\ UNCHANGED <<tdVars, retryVars, raceVars, envVars, pageVars,
           tableVars, opsVars, scenVars, fx, fpc, ctx, logins, loginSteps,
           writes, probe, handed>>
    \/ Auth_NewContext /\ UNCHANGED <<tdVars, retryVars, raceVars, envVars, pageVars,
           tableVars, opsVars, scenVars, fx, fpc, ctx, logins, loginSteps,
           writes, probe, handed>>
    \/ Auth_NewPage /\ UNCHANGED <<tdVars, retryVars, raceVars, envVars, pageVars,
           tableVars, opsVars, scenVars, fx, fpc, ctx, logins, loginSteps,
           writes, probe, handed>>
    \/ Auth_LoginStep /\ UNCHANGED <<tdVars, retryVars, raceVars, envVars, pageVars,
           tableVars, opsVars, scenVars, fx, fpc, ctx, logins, loginSteps,
           writes, probe, handed>>
    \/ Auth_MarkerWait /\ UNCHANGED <<tdVars, retryVars, raceVars, envVars, pageVars,
           tableVars, opsVars, scenVars, fx, fpc, ctx, logins, loginSteps,
           writes, probe, handed>>
    \/ Auth_StorageState /\ UNCHANGED <<tdVars, retryVars, raceVars, envVars, pageVars,
           tableVars, opsVars, scenVars, fx, fpc, ctx, logins, loginSteps,
           writes, probe, handed>>
    \/ Auth_Close /\ UNCHANGED <<tdVars, retryVars, raceVars, envVars, pageVars,
           tableVars, opsVars, scenVars, fx, fpc, ctx, logins, loginSteps,
           writes, probe, handed>>
    \/ Run_WorkersStart /\ UNCHANGED <<tdVars, retryVars, raceVars, envVars, pageVars,
           tableVars, opsVars, scenVars>>
    \/ NextFixture

SpecRun == InitRun /\ [][NextRun]_vars

---------------------------------------------------------------------------
(* globalTeardown *)

\* file names, as their characters
AdminAuth ==
    <<"a", "d", "m", "i", "n", "-", "a", "u", "t", "h", ".", "j", "s", "o", "n">>
TempAuth ==
    <<"t", "e", "m", "p", "-", "a", "u", "t", "h", ".", "j", "s", "o", "n">>
UserTmp == <<"u", "s", "e", "r", ".", "t", "m", "p">>
Attempt == <<"a", "t", "t", "e", "m", "p", "t", ".", "j", "s", "o", "n">>
UpperTemp == <<"T", "E", "M", "P", ".", "j", "s", "o", "n">>
FileNames == {AdminAuth, TempAuth, UserTmp, Attempt, UpperTemp}
FileContents == {"valid", "stale"}
FlagValues == {Unset, "true", "false"}

\* String.prototype.includes
Includes(name, part) ==
    \E i \in 1..(Len(name) - Len(part) + 1) :
        SubSeq(name, i, i + Len(part) - 1) = part

\* mutant: every file of a session counts as temporary
IsTemp_AuthToo(name) ==
    \/ Includes(name, <<"t", "e", "m", "p">>)
    \/ Includes(name, <<"t", "m", "p">>)
    \/ Includes(name, <<"a", "u", "t", "h">>)

\* file => file.includes('temp') || file.includes('tmp')
IsTemp(name) ==
    \/ Includes(name, <<"t", "e", "m", "p">>)
    \/ Includes(name, <<"t", "m", "p">>)

\* a step function has returned, its error (if any) caught and warned
StepOver(step, ok) == tdlog' = Append(tdlog, [step |-> step, ok |-> ok])

\* if (process.env.ARCHIVE_RESULTS === 'true') archiveTestResults, else return
AfterOldArtifacts == tdpc' = IF archive = "true" THEN "archive" ELSE "returned"

\* if (process.env.CLEANUP_OLD_ARTIFACTS === 'true') cleanupOldArtifacts
AfterSummary ==
    IF cleanupOld = "true" THEN tdpc' = "old" ELSE AfterOldArtifacts

\* cleanupAuthStates: existsSync, readdirSync and the filter
Td_Readdir ==
    /\ tdpc = "cleanup"
    /\ IF ~adirExists
         THEN StepOver("authStates", TRUE) /\ tdpc' = "summary" /\ UNCHANGED pending
         ELSE \E ok \in BOOLEAN :
                IF ok
                  THEN /\ pending' = {n \in DOMAIN adir : IsTemp(n)}
                       /\ IF pending' = {}
                            THEN StepOver("authStates", TRUE) /\ tdpc' = "summary"
                            ELSE tdpc' = "unlink" /\ UNCHANGED tdlog
                  ELSE /\ StepOver("authStates", FALSE)
                       /\ tdpc' = "summary"
                       /\ UNCHANGED pending
    /\ UNCHANGED <<adirExists, adir, adir0, cleanupOld, archive>>

\* tempFiles.forEach(file => fs.unlinkSync(...)): an unlink that throws ends
\* the loop in the catch block
Td_Unlink ==
    /\ tdpc = "unlink"
    /\ \E n \in pending, ok \in BOOLEAN :
          IF ok
            THEN /\ adir' = [m \in DOMAIN adir \ {n} |-> adir[m]]
                 /\ pending' = pending \ {n}
                 /\ IF pending' = {}
                      THEN StepOver("authStates", TRUE) /\ tdpc' = "summary"
                      ELSE UNCHANGED <<tdlog, tdpc>>
            ELSE /\ pending' = {}
                 /\ StepOver("authStates", FALSE)
                 /\ tdpc' = "summary"
                 /\ UNCHANGED adir
    /\ UNCHANGED <<adirExists, adir0, cleanupOld, archive>>

\* mutant: an error of generateTestSummary leaves globalTeardown
Td_Summary_Throwing ==
    /\ tdpc = "summary"
    /\ \E ok \in BOOLEAN :
          /\ StepOver("summary", ok)
          /\ IF ok THEN AfterSummary ELSE tdpc' = "threw"
    /\ UNCHANGED <<adirExists, adir, adir0, pending, cleanupOld, archive>>

\* generateTestSummary: writes test-results/test-summary.json
Td_Summary ==
    /\ tdpc = "summary"
    /\ \E ok \in BOOLEAN : StepOver("summary", ok)
    /\ AfterSummary
    /\ UNCHANGED <<adirExists, adir, adir0, pending, cleanupOld, archive>>

\* cleanupOldArtifacts: unlinks old files under test-results
Td_OldArtifacts ==
    /\ tdpc = "old"
    /\ \E ok \in BOOLEAN : StepOver("oldArtifacts", ok)
    /\ AfterOldArtifacts
    /\ UNCHANGED <<adirExists, adir, adir0, pending, cleanupOld, archive>>

\* archiveTestResults: copies test-results and playwright-report
Td_Archive ==
    /\ tdpc = "archive"
    /\ \E ok \in BOOLEAN : StepOver("archive", ok)
    /\ tdpc' = "returned"
    /\ UNCHANGED <<adirExists, adir, adir0, pending, cleanupOld, archive>>

InitTeardown ==
    /\ tdpc = "cleanup"
    /\ adirExists \in BOOLEAN
    /\ adir \in UNION {[names -> FileContents] : names \in SUBSET FileNames}
    /\ (~adirExists => adir = <<>>)
    /\ adir0 = adir
    /\ pending = {}
    /\ tdlog = <<>>
    /\ cleanupOld \in FlagValues
    /\ archive \in FlagValues

InitTd ==
    InitTeardown /\ IdleRetry /\ IdleFixture /\ NoWrites /\ IdleEnv /\ IdlePage
    /\ IdleTable /\ IdleOps /\ IdleScenario /\ IdleSetup

NextTeardown ==
    \/ Td_Readdir /\ UNCHANGED <<retryVars, fixtureVars, raceVars, envVars,
                                 pageVars, tableVars, opsVars, scenVars, setupVars>>
    \/ Td_Unlink /\ UNCHANGED <<retryVars, fixtureVars, raceVars, envVars,
                                pageVars, tableVars, opsVars, scenVars, setupVars>>
    \/ Td_Summary /\ UNCHANGED <<retryVars, fixtureVars, raceVars, envVars,
                                 pageVars, tableVars, opsVars, scenVars, setupVars>>
    \/ Td_OldArtifacts /\ UNCHANGED <<retryVars, fixtureVars, raceVars, envVars,
                                      pageVars, tableVars, opsVars, scenVars,
                                      setupVars>>
    \/ Td_Archive /\ UNCHANGED <<retryVars, fixtureVars, raceVars, envVars,
                                 pageVars, tableVars, opsVars, scenVars, setupVars>>

SpecTeardown == InitTd /\ [][NextTeardown]_vars

---------------------------------------------------------------------------
(* Environment.getConfig and the cached configuration *)

\* the keys of the `configs` object literal
OwnConfigs == {"dev", "staging", "production", "ci"}
\* keys every object inherits from Object.prototype
InheritedKeys == {"toString"}
EnvNames == {Unset, ""} \cup OwnConfigs \cup InheritedKeys \cup {"qa"}
EnvTimeouts == {Unset, "5000"}

\* parseInt of the decimal strings in use
ParseInt(str) ==
    CASE str = "5000" -> 5000
      [] str = "30000" -> 30000
      [] str = "45000" -> 45000
      [] str = "60000" -> 60000

\* the default of `timeout` in each configuration
TimeoutDefault(name) ==
    CASE name = "dev" -> "30000"
      [] name = "staging" -> "45000"
      [] name = "production" -> "60000"
      [] name = "ci" -> "60000"

\* x || dflt for an environment variable x
OrDefault(x, dflt) == IF x \in {Unset, ""} THEN dflt ELSE x

\* configs[name]: an own entry, an inherited member, or undefined
ConfigsLookup(name) ==
    IF name \in OwnConfigs
      THEN [kind |-> "config", name |-> name,
            timeout |-> ParseInt(OrDefault(envTimeout, TimeoutDefault(name))),
            id |-> Len(loadLog) + 1]
      ELSE IF name \in InheritedKeys
        THEN [kind |-> "inherited", name |-> name, timeout |-> 0,
              id |-> Len(loadLog) + 1]
        ELSE NoConfig

\* loadConfig(): configs[env] || configs.dev with env = process.env.ENV || 'dev'
LoadConfig ==
    LET env == OrDefault(envName, "dev")
        selectedConfig == ConfigsLookup(env)
    IN IF selectedConfig.kind # "undefined" THEN selectedConfig
                                             ELSE ConfigsLookup("dev")

\* Environment.getConfig()
Env_GetConfig ==
    /\ Len(returns) < MaxGetCalls
    /\ IF config.kind = "undefined"
         THEN /\ config' = LoadConfig
              /\ loadLog' = Append(loadLog, envName)
         ELSE UNCHANGED <<config, loadLog>>
    /\ returns' = Append(returns, config')
    /\ UNCHANGED <<envName, envTimeout>>

\* the process environment is changed between two calls
Env_Change ==
    /\ \E n \in EnvNames, t \in EnvTimeouts :
          /\ <<n, t>> # <<envName, envTimeout>>
          /\ envName' = n
          /\ envTimeout' = t
    /\ UNCHANGED <<config, returns, loadLog>>

InitEnvironment ==
    /\ envName \in EnvNames
    /\ envTimeout \in EnvTimeouts
    /\ config = NoConfig
    /\ returns = <<>>
    /\ loadLog = <<>>

InitE ==
    InitEnvironment /\ IdleRetry /\ IdleFixture /\ NoWrites /\ IdlePage
    /\ IdleTable /\ IdleOps /\ IdleScenario /\ IdleSetup
    /\ IdleTeardown

NextEnv ==
    \/ Env_GetConfig /\ UNCHANGED <<tdVars, setupVars, retryVars, fixtureVars, raceVars, pageVars,
                                    tableVars, opsVars, scenVars>>
    \/ Env_Change /\ UNCHANGED <<tdVars, setupVars, retryVars, fixtureVars, raceVars, pageVars,
                                 tableVars, opsVars, scenVars>>

SpecEnv == InitE /\ [][NextEnv]_vars

---------------------------------------------------------------------------
(* The OrangeHRM login page object and the page it drives *)

ValidCredentials == [username |-> "Admin", password |-> "admin123"]
InvalidCredentials == [username |-> "invalid_user", password |-> "invalid_pass"]

\* expect(page.url()).toContain / expectUrlToContain: substring tests
ContainsLogin(u) == u = LoginUrl
ContainsDashboard(u) == u = DashboardUrl
Urls == {LoginUrl, DashboardUrl, OtherUrl}

\* OrangeHRMLoginPage.enterUsername: page.fill on the username input
EnterUsername(username) ==
    /\ uname' = username
    /\ UNCHANGED <<pword, url, errVisible, errText, formShown>>

\* OrangeHRMLoginPage.enterPassword: page.fill on the password input
EnterPassword(password) ==
    /\ pword' = password
    /\ UNCHANGED <<uname, url, errVisible, errText, formShown>>

\* OrangeHRMLoginPage.clickLogin: the application answers the submitted form.
\* Valid credentials open the dashboard; to anything else the answer is the
\* application's: any page, with or without an error element, the inputs
\* kept, emptied or filled in by the browser.
ClickLogin ==
    IF <<uname, pword>> = <<ValidCredentials.username, ValidCredentials.password>>
      THEN /\ url' = DashboardUrl
           /\ formShown' = FALSE
           /\ errVisible' = FALSE
           /\ errText' = ""
           /\ UNCHANGED <<uname, pword>>
      ELSE /\ url' \in Urls
           /\ formShown' \in BOOLEAN
           /\ errVisible' \in BOOLEAN
           /\ errText' \in {"", "Invalid credentials"}
           /\ uname' \in {uname, "", ValidCredentials.username}
           /\ pword' \in {pword, "", ValidCredentials.password}

\* OrangeHRMLoginPage.goto: a freshly loaded login page
Goto ==
    /\ uname' = ""
    /\ pword' = ""
    /\ url' = LoginUrl
    /\ errVisible' = FALSE
    /\ errText' = ""
    /\ formShown' = TRUE

\* OrangeHRMLoginPage.verifyLoginPage passes
VerifyLoginPage == formShown /\ ContainsLogin(url)

---------------------------------------------------------------------------
(* The empty-field login scenarios of login.spec.ts *)

Scenarios == {"emptyUsername", "emptyPassword", "bothEmpty"}

\* getEmptyUsernameScenario, getEmptyPasswordScenario, getBothFieldsEmptyScenario
Credentials(s) ==
    CASE s = "emptyUsername" -> [username |-> "", password |-> "admin123"]
      [] s = "emptyPassword" -> [username |-> "Admin", password |-> ""]
      [] s = "bothEmpty" -> [username |-> "", password |-> ""]

\* the expectations on the field values in the branch without an error
FieldsStillEmpty(s) ==
    CASE s = "emptyUsername" -> uname = ""
      [] s = "emptyPassword" -> pword = ""
      [] s = "bothEmpty" -> uname = "" /\ pword = ""

\* the final expect(page.url()).not.toContain('/dashboard')
UrlExpectation == ~ContainsDashboard(url)

\* the step 'Then the system should prevent login' without its last expect
ThenBranches(s) ==
    /\ formShown                     \* getUsernameValue / getPasswordValue
    /\ IF errVisible THEN errText # ""
                     ELSE FieldsStillEmpty(s) /\ VerifyLoginPage

\* 'Given I am on the OrangeHRM login page'
Scen_Given ==
    /\ verdict = "start"
    /\ Goto
    /\ verdict' = "given"
    /\ UNCHANGED scenario

\* 'When I leave the ... field empty': enterUsername
Scen_EnterUsername ==
    /\ verdict = "given"
    /\ EnterUsername(Credentials(scenario).username)
    /\ verdict' = "username"
    /\ UNCHANGED scenario

\* 'When I leave the ... field empty': enterPassword
Scen_EnterPassword ==
    /\ verdict = "username"
    /\ EnterPassword(Credentials(scenario).password)
    /\ verdict' = "password"
    /\ UNCHANGED scenario

\* 'And I click the login button'
Scen_ClickLogin ==
    /\ verdict = "password"
    /\ ClickLogin
    /\ verdict' = "clicked"
    /\ UNCHANGED scenario

\* 'Then the system should prevent login', the URL expectation dropped
Scen_Then_NoUrlCheck ==
    /\ verdict = "clicked"
    /\ verdict' = IF ThenBranches(scenario) THEN "passed" ELSE "failed"
    /\ UNCHANGED <<scenario, pageVars>>

\* 'Then the system should prevent login'
Scen_Then ==
    /\ verdict = "clicked"
    /\ verdict' = IF ThenBranches(scenario) /\ UrlExpectation THEN "passed"
                                                                ELSE "failed"
    /\ UNCHANGED <<scenario, pageVars>>

InitScenario ==
    /\ scenario \in Scenarios
    /\ verdict = "start"
    /\ uname = ""
    /\ pword = ""
    /\ url = BlankUrl
    /\ errVisible = FALSE
    /\ errText = ""
    /\ formShown = FALSE

InitS ==
    InitScenario /\ IdleRetry /\ IdleFixture /\ NoWrites /\ IdleEnv /\ IdleTable
    /\ IdleOps /\ IdleSetup
    /\ IdleTeardown

NextScenario ==
    \/ Scen_Given /\ UNCHANGED <<tdVars, setupVars, retryVars, fixtureVars, raceVars, envVars,
                                 tableVars, opsVars>>
    \/ Scen_EnterUsername /\ UNCHANGED <<tdVars, setupVars, retryVars, fixtureVars, raceVars,
                                         envVars, tableVars, opsVars>>
    \/ Scen_EnterPassword /\ UNCHANGED <<tdVars, setupVars, retryVars, fixtureVars, raceVars,
                                         envVars, tableVars, opsVars>>
    \/ Scen_ClickLogin /\ UNCHANGED <<tdVars, setupVars, retryVars, fixtureVars, raceVars, envVars,
                                      tableVars, opsVars>>
    \/ Scen_Then /\ UNCHANGED <<tdVars, setupVars, retryVars, fixtureVars, raceVars, envVars,
                                tableVars, opsVars>>

SpecScenario == InitS /\ [][NextScenario]_vars

---------------------------------------------------------------------------
(* LoginPage.fillCredentialsFromTable of the saucedemo page object *)

\* the cases of the switch, and keys it does not know
KnownFields == {"Username", "Password"}
Fields == KnownFields \cup {"Email", "username"}
FieldValues == {"standard_user", "secret_sauce"}

\* a Map<string, string>: entries in insertion order, keys unique
Tables ==
    {t \in UNION {[1..n -> Fields \X FieldValues] : n \in 0..MaxEntries} :
        \A i, j \in 1..Len(t) : i # j => t[i][1] # t[j][1]}

\* the entry the loop is at
Field == table[tidx][1]
Value == table[tidx][2]

\* case 'Username' / case 'Password': enterUsername or enterPassword up to
\* its first await, <input>.clear()
Tbl_Clear ==
    /\ tpc = "loop"
    /\ tidx <= Len(table)
    /\ Field \in KnownFields
    /\ IF Field = "Username" THEN uname' = "" /\ UNCHANGED pword
                             ELSE pword' = "" /\ UNCHANGED uname
    /\ plog' = Append(plog, <<"clear", Field>>)
    /\ tpc' = "fill"
    /\ UNCHANGED <<table, tidx, tthrown>>

\* the second await of enterUsername or enterPassword, <input>.fill(value),
\* then break and the next entry
Tbl_Fill ==
    /\ tpc = "fill"
    /\ IF Field = "Username" THEN uname' = Value /\ UNCHANGED pword
                             ELSE pword' = Value /\ UNCHANGED uname
    /\ plog' = Append(plog, <<"fill", Field, Value>>)
    /\ tidx' = tidx + 1
    /\ tpc' = "loop"
    /\ UNCHANGED <<table, tthrown>>

\* default: the entry is skipped
Tbl_Throw_Skipping ==
    /\ tpc = "loop"
    /\ tidx <= Len(table)
    /\ Field \notin KnownFields
    /\ tidx' = tidx + 1
    /\ UNCHANGED <<table, tpc, tthrown, uname, pword, plog>>

\* default: throw new Error(`Unknown field in credentials table: ${field}`)
Tbl_Throw ==
    /\ tpc = "loop"
    /\ tidx <= Len(table)
    /\ Field \notin KnownFields
    /\ tpc' = "thrown"
    /\ tthrown' = Field
    /\ UNCHANGED <<table, tidx, uname, pword, plog>>

\* the loop is over: the method returns
Tbl_Return ==
    /\ tpc = "loop"
    /\ tidx > Len(table)
    /\ tpc' = "returned"
    /\ UNCHANGED <<table, tidx, tthrown, uname, pword, plog>>

InitTable ==
    /\ table \in Tables
    /\ tidx = 1
    /\ tpc = "loop"
    /\ tthrown = ""
    /\ uname \in {"", "stale"}
    /\ pword \in {"", "stale"}
    /\ url = LoginUrl
    /\ errVisible = FALSE
    /\ errText = ""
    /\ formShown = TRUE
    /\ calls = <<>>
    /\ cur = NoCall
    /\ plog = <<>>
    /\ snap = NoSnap

InitT ==
    InitTable /\ IdleRetry /\ IdleFixture /\ NoWrites /\ IdleEnv /\ IdleScenario /\ IdleSetup
    /\ IdleTeardown

NextTable ==
    \/ Tbl_Clear /\ UNCHANGED <<tdVars, setupVars, retryVars, fixtureVars, raceVars, envVars,
                                scenVars, calls, cur, snap, url, errVisible,
                                errText, formShown>>
    \/ Tbl_Fill /\ UNCHANGED <<tdVars, setupVars, retryVars, fixtureVars, raceVars, envVars,
                               scenVars, calls, cur, snap, url, errVisible,
                               errText, formShown>>
    \/ Tbl_Throw /\ UNCHANGED <<tdVars, setupVars, retryVars, fixtureVars, raceVars, envVars,
                                scenVars, calls, cur, snap, url, errVisible,
                                errText, formShown>>
    \/ Tbl_Return /\ UNCHANGED <<tdVars, setupVars, retryVars, fixtureVars, raceVars, envVars,
                                 scenVars, calls, cur, snap, url, errVisible,
                                 errText, formShown>>

SpecTable == InitT /\ [][NextTable]_vars

---------------------------------------------------------------------------
(* A test calling OrangeHRMLoginPage.login and clearForm *)

CallNames == {"login:valid", "login:invalid", "clearForm"}

\* the form as the tuple kept in snap
FormNow == <<uname, pword, url, errVisible, errText, formShown>>
FormNext == <<uname', pword', url', errVisible', errText', formShown'>>

\* the call in progress returns
Complete(name) ==
    /\ calls' = Append(calls, name)
    /\ snap' = [op |-> name, page |-> FormNext, prevOp |-> snap.op,
                prevPage |-> snap.page]
    /\ cur' = NoCall

LoginName == IF cur.u = ValidCredentials.username THEN "login:valid"
                                                  ELSE "login:invalid"

\* the test calls login(username, password) or clearForm()
Ops_Begin ==
    /\ cur = NoCall
    /\ Len(calls) < MaxCalls
    /\ \/ \E c \in {ValidCredentials, InvalidCredentials} :
             cur' = [op |-> "login", step |-> 1, u |-> c.username,
                     p |-> c.password]
       \/ cur' = [op |-> "clearForm", step |-> 1, u |-> "", p |-> ""]
    /\ plog' = <<>>
    /\ UNCHANGED <<calls, snap, pageVars>>

\* login: await this.enterUsername(username)
Login_EnterUsername ==
    /\ cur.op = "login" /\ cur.step = 1
    /\ formShown
    /\ EnterUsername(cur.u)
    /\ plog' = Append(plog, <<"fill", "username", cur.u>>)
    /\ cur' = [cur EXCEPT !.step = 2]
    /\ UNCHANGED <<calls, snap>>

\* login: await this.enterPassword(password)
Login_EnterPassword ==
    /\ cur.op = "login" /\ cur.step = 2
    /\ formShown
    /\ EnterPassword(cur.p)
    /\ plog' = Append(plog, <<"fill", "password", cur.p>>)
    /\ cur' = [cur EXCEPT !.step = 3]
    /\ UNCHANGED <<calls, snap>>

\* login: await this.clickLogin()
Login_ClickLogin ==
    /\ cur.op = "login" /\ cur.step = 3
    /\ formShown
    /\ ClickLogin
    /\ plog' = Append(plog, <<"click">>)
    /\ Complete(LoginName)

\* clearForm: await this.clear('input[name="username"]'), a fill with ''
Clear_Username ==
    /\ cur.op = "clearForm" /\ cur.step = 1
    /\ formShown
    /\ EnterUsername("")
    /\ plog' = Append(plog, <<"fill", "username", "">>)
    /\ cur' = [cur EXCEPT !.step = 2]
    /\ UNCHANGED <<calls, snap>>

\* clearForm returning with the password input left as it was
Clear_Password_Skipped ==
    /\ cur.op = "clearForm" /\ cur.step = 2
    /\ formShown
    /\ UNCHANGED pageVars
    /\ plog' = plog
    /\ Complete("clearForm")

\* clearForm: await this.clear('input[name="password"]')
Clear_Password ==
    /\ cur.op = "clearForm" /\ cur.step = 2
    /\ formShown
    /\ EnterPassword("")
    /\ plog' = Append(plog, <<"fill", "password", "">>)
    /\ Complete("clearForm")

\* page.fill / page.click find no element and time out: the call throws
Ops_Throws ==
    /\ cur.op \in {"login", "clearForm"}
    /\ ~formShown
    /\ cur' = [cur EXCEPT !.op = "threw"]
    /\ UNCHANGED <<calls, plog, snap, pageVars>>

InitOps ==
    /\ calls = <<>>
    /\ cur = NoCall
    /\ plog = <<>>
    /\ snap = NoSnap
    /\ uname \in {"", "stale"}
    /\ pword \in {"", "stale"}
    /\ url = LoginUrl
    /\ errVisible = FALSE
    /\ errText = ""
    /\ formShown = TRUE

InitO ==
    InitOps /\ IdleRetry /\ IdleFixture /\ NoWrites /\ IdleEnv /\ IdleTable
    /\ IdleScenario /\ IdleSetup
    /\ IdleTeardown

NextOps ==
    \/ Ops_Begin /\ UNCHANGED <<tdVars, setupVars, retryVars, fixtureVars, raceVars, envVars,
                                tableVars, scenVars>>
    \/ Login_EnterUsername /\ UNCHANGED <<tdVars, setupVars, retryVars, fixtureVars, raceVars,
                                          envVars, tableVars, scenVars>>
    \/ Login_EnterPassword /\ UNCHANGED <<tdVars, setupVars, retryVars, fixtureVars, raceVars,
                                          envVars, tableVars, scenVars>>
    \/ Login_ClickLogin /\ UNCHANGED <<tdVars, setupVars, retryVars, fixtureVars, raceVars, envVars,
                                       tableVars, scenVars>>
    \/ Clear_Username /\ UNCHANGED <<tdVars, setupVars, retryVars, fixtureVars, raceVars, envVars,
                                     tableVars, scenVars>>
    \/ Clear_Password /\ UNCHANGED <<tdVars, setupVars, retryVars, fixtureVars, raceVars, envVars,
                                     tableVars, scenVars>>
    \/ Ops_Throws /\ UNCHANGED <<tdVars, setupVars, retryVars, fixtureVars, raceVars, envVars,
                                 tableVars, scenVars>>

SpecOps == InitO /\ [][NextOps]_vars

---------------------------------------------------------------------------
(* Observations of a run of a retry helper *)

Done == rpc = "done"
IsRetry == which \in {"retry", "retryOld"}
AllFailed == \A i \in 1..Len(Settlements) : Settlements[i].ev = "err"
Max(a, b) == IF a >= b THEN a ELSE b
\* the error thrown by the last invocation that has settled
LastError ==
    LET s == Settlements[Len(Settlements)] IN ErrorOf(s.k, s.n)
\* the calls among the first j events of the history
CallsBefore(j) == Len(SelectSeq(SubSeq(log, 1, j), LAMBDA x : x.ev = "call"))
\* the waits a run with c invocations makes under delay d and multiplier b
ExpectedWaits(c, d, b) == [i \in 1..(c - 1) |-> d * Pow(b, i - 1)]

---------------------------------------------------------------------------
(* Claims on the retry helpers *)

\* C1 as stated: with retries = n >= 1, TestHelpers.retry invokes an operation
\* that always fails exactly n times and throws the final invocation's error.
C1_Original ==
    (Done /\ IsRetry /\ retries0 >= 1 /\ AllFailed)
        => (Calls = retries0 /\ result = Thrown(LastError))

\* C1 amended: with retries = n >= 1, TestHelpers.retry invokes an operation
\* that fails on every invocation exactly n + 1 times (one first attempt and n
\* retries), and the caller observes the error thrown by the final invocation.
C1_AlwaysFailing ==
    (Done /\ IsRetry /\ retries0 >= 1 /\ AllFailed)
        => (Calls = retries0 + 1 /\ result = Thrown(LastError)
            /\ LastError.n = retries0 + 1)

C1_Witness ==
    Done /\ which = "retry" /\ retries0 = 2 /\ AllFailed /\ Calls = 3
    /\ result.t = "thrown"

\* C2: with retries = n, an operation failing on its first k-1 invocations and
\* succeeding on invocation k <= n is invoked exactly k times, the value of the
\* k-th invocation is returned, and nothing is invoked after the first success.
C2_SucceedsOnK ==
    IsRetry =>
      /\ \A j \in 1..Len(log) : log[j].ev = "ok" => j = Len(log)
      /\ (Done /\ result.t = "returned") =>
            /\ \A i \in 1..(Calls - 1) : Settlements[i].ev = "err"
            /\ Len(Settlements) = Calls
            /\ Settlements[Calls].ev = "ok"
            /\ result.v = ValueOf(Calls)
      \* the helper gives up only after more than n failures
      /\ (Done /\ result.t = "thrown") => (AllFailed /\ Calls > retries0)

C2_Witness ==
    Done /\ which = "retry" /\ retries0 = 3 /\ Calls = 3
    /\ result = Returned(ValueOf(3))

\* C3: with retries = 0, TestHelpers.retry invokes the operation exactly once,
\* performs no wait, and returns its value or throws its error.
C3_ZeroRetries ==
    (which = "retry" /\ retries0 = 0) =>
      /\ Calls <= 1
      /\ Len(WaitEvents) = 0
      /\ Done =>
           /\ Calls = 1
           /\ \/ Settlements[1].ev = "ok" /\ result = Returned(ValueOf(1))
              \/ Settlements[1].ev = "err" /\ result = Thrown(LastError)

C3_Witness ==
    Done /\ which = "retry" /\ retries0 = 0 /\ Calls = 1 /\ result.t = "thrown"

\* C4: the wait between attempt i and attempt i+1 (i from 0) is
\* delay * backoff^i; with delay 100 and backoff 2 an operation failing twice
\* and then succeeding is invoked 3 times with waits 100 then 200; with delay 0
\* every wait is 0.
C4_BackoffDelays ==
    IsRetry =>
      /\ \A j \in 1..Len(log) :
            log[j].ev = "wait" =>
                log[j].d = delay0 * Pow(backoff0, CallsBefore(j) - 1)
      /\ (Done /\ delay0 = 100 /\ backoff0 = 2 /\ result = Returned(ValueOf(3)))
            => (Calls = 3 /\ Waits = <<100, 200>>)
      /\ delay0 = 0 => \A i \in 1..Len(Waits) : Waits[i] = 0

C4_Witness ==
    Done /\ which = "retry" /\ delay0 = 100 /\ backoff0 = 2 /\ retries0 = 3
    /\ Calls = 3 /\ Waits = <<100, 200>> /\ result = Returned(ValueOf(3))

\* C5: when retry or retryWithErrorHandling gives up after its attempts, the
\* caller receives the very error thrown by the last invocation (a run with at
\* least one invocation in which no errorHandler call threw).
C5_LastErrorUnchanged ==
    (Done /\ result.t = "thrown" /\ Calls >= 1 /\ Count("handlerThrew") = 0)
        => (result.v = LastError /\ LastError.n = Calls
            /\ result.v.t = "error" /\ result.v.k \in ErrKinds)

C5_Witness ==
    Done /\ which = "retryEH" /\ retries0 = 2 /\ Calls = 3 /\ handler
    /\ Count("handlerThrew") = 0
    /\ Settlements[1].k # Settlements[3].k
    /\ result = Thrown(LastError)

\* C6: no two invocations are in flight; an invocation once started runs to its
\* settlement; invocation i+1 starts only after invocation i failed and the
\* wait that followed it has elapsed.
C6_Sequential ==
    /\ InFlight \in {0, 1}
    /\ InFlight = 1 <=> rpc = "calling"
    /\ \A j \in 1..Len(log) :
          log[j].ev = "call" =>
             /\ \/ j = Len(log) /\ rpc = "calling"
                \/ j < Len(log) /\ log[j + 1].ev \in {"ok", "err"}
                                /\ log[j + 1].n = log[j].n
             /\ j > 1 =>
                  /\ j >= 4
                  /\ log[j - 1].ev = "elapsed"
                  /\ log[j - 2].ev = "wait"
                  /\ log[j - 1].d = log[j - 2].d
                  /\ \/ log[j - 3].ev = "err"
                     \/ log[j - 3].ev = "handler" /\ log[j - 4].ev = "err"
                  /\ log[j].n = CallsBefore(j - 1) + 1

C6_Witness ==
    rpc = "calling" /\ Calls = 3 /\ which = "retry"

\* C7: the retry decision depends only on the remaining attempt count: a failed
\* invocation is retried while attempts remain whatever error it threw, so the
\* number of invocations and the waits are determined by the success/failure
\* pattern alone.
C7_ErrorAgnostic ==
    which = "retry" =>
      /\ (rpc = "waiting") => (Settlements[Len(Settlements)].ev = "err")
      /\ (Done /\ result.t = "thrown") =>
            (AllFailed /\ Calls = Max(retries0, 0) + 1)
      /\ (Done /\ result.t = "returned") =>
            (\A i \in 1..(Calls - 1) : Settlements[i].ev = "err")
      /\ Done => Waits = ExpectedWaits(Calls, delay0, backoff0)

C7_Witness ==
    Done /\ which = "retry" /\ retries0 = 2 /\ Calls = 3 /\ result.t = "thrown"
    /\ Settlements[1].k = "assertion" /\ Settlements[2].k = "timeout"

---------------------------------------------------------------------------
(* Claims on the pre-authenticated fixtures *)

C9_Original ==
    \A w \in Workers :
       (probe[w] = "failed" /\ handed[w].given) =>
          (logins[w] = 1 /\ writes[w] = 1)

\* C10 as stated: with no stored session state, each fixture performs exactly
\* one interactive login and leaves a session file on disk.
C10_Original ==
    \A w \in Workers :
       (ctx[w].origin = "blank" /\ handed[w].given) =>
          (logins[w] = 1 /\ file.c # "absent")

\* C11: a failing interactive login ends the fixture with that failure: the
\* login was attempted exactly once, nothing was retried, the session file was
\* not written by this fixture and the test body did not run.
C11_LoginFailureFatal ==
    \A w \in Workers :
       /\ logins[w] <= 1
       /\ loginSteps[w] <= Len(LoginPcs)
       /\ (fpc[w] = "failed" /\ logins[w] >= 1) =>
             /\ logins[w] = 1
             /\ writes[w] = 0 /\ file.by # w
             /\ ~handed[w].given /\ handed[w].body = "none"

C11_Witness ==
    \E w \in Workers :
       /\ fpc[w] = "failed" /\ logins[w] = 1 /\ loginSteps[w] = Len(LoginPcs)
       /\ probe[w] = "failed" /\ fx[w] = "context"
       /\ file = [c |-> "stale", by |-> 0]

\* C12 as stated: when the validity probe fails the stale state is discarded:
\* the context handed to the test is not the one reconstructed from the stored
\* state.
C12_Original ==
    \A w \in Workers :
       (probe[w] = "failed" /\ handed[w].given) => handed[w].origin # "file"

\* C14 as stated: the fixture has closed the context it created on every exit
\* path, whether it ended after the test body or with a failure before it.
C14_Original ==
    \A w \in Workers :
       fpc[w] \in {"done", "failed"} => ~ctx[w].open

\* C13: no lock orders the workers on the shared session file: a worker's write
\* may start while another worker's write is in progress, a worker's read of
\* the file may happen during another worker's write, and once no write is in
\* progress the file holds the state of the worker whose write completed last.
C13_NoLockLastWriterWins ==
    /\ \A v, w \in Workers :
          (v # w /\ fpc[v] = "saving" /\ fpc[w] = "save") => ENABLED Fx_SaveBegin(w)
    /\ \A v, w \in Workers :
          (v # w /\ fpc[v] = "saving" /\ fpc[w] = "restore")
              => ENABLED Fx_NewContextStored(w)
    /\ ((\A w \in Workers : fpc[w] # "saving") /\ lastWrite # 0)
          => file = [c |-> "valid", by |-> lastWrite]
    /\ \A w \in writers : fx[w] = "context"

\* two workers have each logged in and written the file, and now one of them
\* reads the file while the other's next write is in progress
C13_Witness ==
    \E v, w \in Workers :
       /\ v # w /\ {v, w} \subseteq writers
       /\ fpc[v] = "restore"
       /\ fpc[w] = "saving" /\ logins[w] = 1
       /\ file = [c |-> "partial", by |-> w]

---------------------------------------------------------------------------
(* Further claims on the retry helpers *)

\* the failed invocations whose catch block has run
HandledFailures ==
    Count("err") - (IF rpc = "settled" /\ settled.t = "error" THEN 1 ELSE 0)

\* C19: retryWithErrorHandling with retries = r >= 0 invokes the operation at
\* most r+1 times, calls errorHandler once per failed invocation with the
\* attempt numbers 1, 2, ... in order, waits the same delay between attempts,
\* and after r+1 failures throws the last invocation's error (the handler not
\* having thrown).
C19_HandlerPerFailure ==
    (which = "retryEH" /\ retries0 >= 0) =>
      /\ Calls <= retries0 + 1
      /\ Len(HandlerCalls) = (IF handler THEN HandledFailures ELSE 0)
      /\ \A i \in 1..Len(HandlerCalls) :
            /\ HandlerCalls[i].n = i
            /\ HandlerCalls[i].d = i
            /\ HandlerCalls[i].k = Settlements[i].k
      /\ \A i \in 1..Len(Waits) : Waits[i] = delay0
      /\ (Done /\ result.t = "thrown" /\ Count("handlerThrew") = 0) =>
            /\ AllFailed
            /\ Calls = retries0 + 1
            /\ result = Thrown(LastError)
            /\ LastError.n = retries0 + 1

C19_Witness ==
    Done /\ which = "retryEH" /\ handler /\ retries0 = 2 /\ delay0 = 100
    /\ Calls = 3 /\ Len(HandlerCalls) = 3 /\ Count("handlerThrew") = 0
    /\ Waits = <<100, 100>> /\ result.t = "thrown"

\* C20 as stated: for every integer `retries`, zero and negative included, a
\* finished call of retry or retryWithErrorHandling has invoked the operation
\* at least once and at most max(retries, 0) + 1 times.
C20_Original ==
    Done => (Calls >= 1 /\ Calls <= Max(retries0, 0) + 1)

---------------------------------------------------------------------------
(* Claims on the configuration *)

---------------------------------------------------------------------------
(* Claims on the login page *)

\* C16: an empty-field scenario passes only if the URL after the click does
\* not contain '/dashboard', and it passes in both outcomes of the error
\* check: an error visible with non-empty text, or no error visible with the
\* empty field(s) still empty and the login page still shown.
C16_EmptyFieldVerdict ==
    /\ verdict = "passed" =>
          /\ ~ContainsDashboard(url)
          /\ \/ errVisible /\ errText # ""
             \/ ~errVisible /\ FieldsStillEmpty(scenario) /\ VerifyLoginPage
    /\ (verdict = "failed" /\ formShown) =>
          \/ ContainsDashboard(url)
          \/ errVisible /\ errText = ""
          \/ ~errVisible /\ ~(FieldsStillEmpty(scenario) /\ VerifyLoginPage)

C16_Witness ==
    /\ verdict = "passed"
    /\ scenario = "bothEmpty"
    /\ ~errVisible
    /\ uname = "" /\ pword = ""
    /\ url = LoginUrl

\* the page actions of the first n table entries, in table order
RECURSIVE FillsOf(_)
FillsOf(n) ==
    IF n = 0 THEN <<>>
    ELSE FillsOf(n - 1) \o << <<"clear", table[n][1]>>,
                              <<"fill", table[n][1], table[n][2]>> >>

\* the inputs hold the values of the first n table entries
HoldsEntries(n) ==
    \A j \in 1..n :
        /\ table[j][1] = "Username" => uname = table[j][2]
        /\ table[j][1] = "Password" => pword = table[j][2]

\* the position of the first key that is neither 'Username' nor 'Password'
FirstUnknown ==
    CHOOSE i \in 1..(Len(table) + 1) :
        /\ i <= Len(table) => table[i][1] \notin KnownFields
        /\ \A j \in 1..(i - 1) : table[j][1] \in KnownFields

\* C17: fillCredentialsFromTable handles the entries in table order; a table
\* with only 'Username' and 'Password' keys leaves the inputs holding the
\* table's values; the first other key makes it throw the unknown-field error
\* naming that key, with the earlier entries filled and no later one touched.
C17_TableInOrder ==
    /\ tpc = "returned" =>
          /\ FirstUnknown = Len(table) + 1
          /\ plog = FillsOf(Len(table))
          /\ HoldsEntries(Len(table))
    /\ tpc = "thrown" =>
          /\ tidx = FirstUnknown
          /\ tthrown = table[FirstUnknown][1]
          /\ plog = FillsOf(FirstUnknown - 1)
          /\ HoldsEntries(FirstUnknown - 1)
    /\ tpc = "loop" => plog = FillsOf(tidx - 1)
    /\ tpc = "fill" => plog = Append(FillsOf(tidx - 1), <<"clear", Field>>)

C17_Witness ==
    /\ tpc = "thrown"
    /\ Len(table) = 3
    /\ tidx = 2
    /\ table[1][1] = "Password"
    /\ table[3][1] = "Username"
    /\ pword = table[1][2]
    /\ uname = "stale"

\* the page actions of login(u, p)
LoginActions(u, p) ==
    << <<"fill", "username", u>>, <<"fill", "password", p>>, <<"click">> >>

\* the credentials a completed login call was given
GivenTo(name) ==
    IF name = "login:valid" THEN ValidCredentials ELSE InvalidCredentials

\* C18: login fills the username, fills the password and clicks, in that
\* order; clearForm leaves both inputs empty whatever they held, so that a
\* valid login after a failed login and clearForm reaches the dashboard; a
\* second clearForm leaves the state of the first.
C18_LoginOrderClearForm ==
    /\ cur.op = "login" =>
          plog = SubSeq(LoginActions(cur.u, cur.p), 1, cur.step - 1)
    /\ (cur = NoCall /\ snap.op \in {"login:valid", "login:invalid"}) =>
          plog = LoginActions(GivenTo(snap.op).username,
                              GivenTo(snap.op).password)
    /\ (cur = NoCall /\ snap.op = "clearForm") => (uname = "" /\ pword = "")
    /\ (cur = NoCall /\ snap.op = "login:valid") => url = DashboardUrl
    /\ (snap.op = "clearForm" /\ snap.prevOp = "clearForm") =>
          snap.page = snap.prevPage

C18_Witness ==
    /\ calls = <<"login:invalid", "clearForm", "login:valid">>
    /\ cur = NoCall
    /\ url = DashboardUrl

---------------------------------------------------------------------------
(* Claims relating the retry helpers *)

\* C21: for retries >= 0, retry with backoff = 1, the retry of helper.ts and
\* retryWithErrorHandling without errorHandler behave alike on every sequence
\* of outcomes. Each finished run is fixed by the outcomes alone: it consumed
\* the outcomes up to the first success or the (retries + 1)-th failure, made
\* one invocation per outcome, waited `delay` between two invocations and
\* ended with the last outcome; nothing below depends on which helper ran.
C21_SameObservables ==
    (Done /\ retries0 >= 0 /\ backoff0 = 1 /\ ~handler) =>
        LET c == Len(Settlements)
        IN /\ c >= 1 /\ c <= retries0 + 1
           /\ Calls = c
           /\ \A i \in 1..(c - 1) : Settlements[i].ev = "err"
           /\ Settlements[c].ev = "ok" \/ c = retries0 + 1
           /\ Waits = [i \in 1..(c - 1) |-> delay0]
           /\ result = IF Settlements[c].ev = "ok"
                         THEN Returned(ValueOf(c))
                         ELSE Thrown(ErrorOf(Settlements[c].k, c))

C21_Witness ==
    /\ Done
    /\ which = "retryOld"
    /\ retries0 = 2
    /\ Calls = 3
    /\ delay0 = 100
    /\ result.t = "thrown"

\* C22 as stated: in every run of retry and retryWithErrorHandling the number
\* of waits is the number of invocations minus one, and the run ends right
\* after the outcome of its last invocation with no wait behind it.
C22_Original ==
    (Done /\ which \in {"retry", "retryEH"}) =>
        /\ Len(WaitEvents) = Calls - 1
        /\ log # <<>>
        /\ log[Len(log)].ev \in {"ok", "err", "handler", "handlerThrew"}

\* C23: an error thrown by the errorHandler ends retryWithErrorHandling at
\* once with that error: no invocation and no wait follows it, even when
\* attempts remain.
C23_HandlerThrowPropagates ==
    \A j \in 1..Len(log) :
        log[j].ev = "handlerThrew" =>
            /\ j = Len(log)
            /\ rpc = "done"
            /\ result = Thrown(HandlerError(log[j].n))

C23_Witness ==
    /\ Done
    /\ which = "retryEH"
    /\ retries0 >= 2
    /\ attempt = 1
    /\ log # <<>>
    /\ log[Len(log)].ev = "handlerThrew"
    /\ Calls = 1
    /\ WaitEvents = <<>>

---------------------------------------------------------------------------
(* Claims on the global setup and the session file *)

\* C26 as stated: globalSetup does not throw, whether or not the accessibility
\* check or the pre-authentication fails (only mkdirSync can make it throw);
\* createAuthState is attempted only when PREAUTH is 'true' and after the
\* directories were created; it closes its browser on its success path and
\* on its failure path.
C26_Original ==
    /\ spc = "threw" => (cbrowser = "none" /\ ares = "none")
    /\ (spc \in {"aLaunch", "aContext", "aPage", "aLogin", "aMarker", "aSave",
                 "aClose"} \/ ares # "none") => (preauth = "true" /\ dirs)
    /\ (ares \in {"ok", "threw"} /\ abrowser # "none") => abrowser = "closed"

\* C24: the session file is written only after the authenticated marker was
\* seen in the context that is saved, by createAuthState and by
\* authenticatedContext alike; a login that fails leaves the file as it was.
C24_WriteAfterMarker ==
    /\ spc # "workers" => ((swrites > 0 \/ file # file0) => amarker)
    /\ (ares \in {"pending", "threw"} /\ ~amarker) => file = file0
    /\ \A w \in Workers :
          (fpc[w] = "saving" \/ writes[w] > 0) => ctx[w].marker
    /\ \A w \in Workers :
          fpc[w] = "failed" => (writes[w] = 0 /\ file.by # w)

C24_Witness ==
    /\ swrites = 1
    /\ \E w \in Workers :
          /\ fx[w] = "context"
          /\ probe[w] = "failed"
          /\ writes[w] = 1
          /\ file = [c |-> "valid", by |-> w]

---------------------------------------------------------------------------
(* Claims on the global teardown *)

\* the session file as the next run's fixtures find it
StoredState(d) == IF AdminAuth \in DOMAIN d THEN d[AdminAuth] ELSE "absent"

\* C27: cleanupAuthStates removes files of auth-state whose name contains
\* 'temp' or 'tmp' and no other: every other file stays with its contents, a
\* cleanup that ends without error has removed all of them, and
\* admin-auth.json, if stored, is what the next run reads.
C27_OnlyTempFilesDeleted ==
    /\ DOMAIN adir \subseteq DOMAIN adir0
    /\ \A n \in DOMAIN adir : adir[n] = adir0[n]
    /\ \A n \in DOMAIN adir0 : ~IsTemp(n) => n \in DOMAIN adir
    /\ (tdlog # <<>> /\ tdlog[1].ok) =>
          DOMAIN adir = {n \in DOMAIN adir0 : ~IsTemp(n)}
    /\ StoredState(adir) = StoredState(adir0)
    /\ DOMAIN adir0 \ DOMAIN adir \subseteq {TempAuth, UserTmp, Attempt}

C27_Witness ==
    /\ tdpc = "returned"
    /\ tdlog[1].ok
    /\ DOMAIN adir0 = FileNames
    /\ DOMAIN adir = {AdminAuth, UpperTemp}
    /\ adir[AdminAuth] = "valid"

\* the names of the steps run so far
StepsRun == [i \in 1..Len(tdlog) |-> tdlog[i].step]

\* the steps globalTeardown has to run under the two flags
StepsDue ==
    <<"authStates", "summary">>
        \o (IF cleanupOld = "true" THEN <<"oldArtifacts">> ELSE <<>>)
        \o (IF archive = "true" THEN <<"archive">> ELSE <<>>)

\* C28: globalTeardown runs auth-state cleanup, summary, old-artifact cleanup
\* (only with CLEANUP_OLD_ARTIFACTS 'true') and archiving (only with
\* ARCHIVE_RESULTS 'true') in this order; a step that fails is caught inside
\* it, the later steps still run and globalTeardown returns.
C28_StepsInOrder ==
    /\ tdpc \in {"cleanup", "unlink", "summary", "old", "archive", "returned"}
    /\ Len(StepsRun) <= Len(StepsDue)
    /\ StepsRun = SubSeq(StepsDue, 1, Len(StepsRun))
    /\ tdpc = "returned" => StepsRun = StepsDue

C28_Witness ==
    /\ tdpc = "returned"
    /\ Len(tdlog) = 4
    /\ \A i \in 1..Len(tdlog) : ~tdlog[i].ok

====
